---- MODULE Spec2Model ----
(***************************************************************************)
(* Event sequences of magenta/music/events_lib.py: SimpleEventSequence     *)
(* (a dense list of events anchored at start_step) and                     *)
(* RunLengthEncodedEventSequence (a list of (event, run-length) tuples).   *)
(* Objects are records of their fields; every method is an operator from   *)
(* the object (and the arguments) to the object after the call.            *)
(***************************************************************************)
EXTENDS Integers, Sequences, FiniteSets, TLC

VARIABLES seq, rle, decoded, twin, heap, op

vars == <<seq, rle, decoded, twin, heap, op>>

(***************************************************************************)
(* Bounds of the model.                                                    *)
(***************************************************************************)
\* longest list of events a SimpleEventSequence of SpecPlain is constructed with
InitLen == 2
\* longest SimpleEventSequence kept in SpecPlain
MaxLen == 4
\* longest base sequence that SpecEncode run-length encodes
EncLen == 5
\* largest max_run_length drawn
MaxRun == 3
\* largest number of underlying steps of a run-length encoded sequence
MaxSteps == 4
\* start_step and end_step are kept within -MaxStep .. MaxStep
MaxStep == 4
\* largest resolution factor k drawn
MaxK == 2

\* Python's None (initial current_event, absent fill_event)
None == "None"
\* the Python value 0 as an event: not None, but false as a condition
Zero == "0"
\* the event values drawn; "_" is the pad event of the tests
EventValues == {"A", "B", "_"}
\* the event values of the runs of SpecRle and SpecTwin, and of the events
\* of SpecPlain
RunEventValues == {"A", "_"}
PadEvents == {"_"}
\* a variable that holds no object in the specification at hand
NoObject == [none |-> TRUE]

Steps == (0 - MaxStep)..MaxStep

RECURSIVE SeqsUpTo(_, _)
SeqsUpTo(S, n) ==
  IF n = 0 THEN {<<>>}
  ELSE LET shorter == SeqsUpTo(S, n - 1)
       IN shorter \cup {Append(s, e) : s \in {t \in shorter : Len(t) = n - 1}, e \in S}

(***************************************************************************)
(* Python list primitives.                                                 *)
(***************************************************************************)
\* normalisation of a slice bound against a list of length n
PyIndex(i, n) ==
  IF i < 0 THEN (IF i + n < 0 THEN 0 ELSE i + n)
  ELSE (IF i > n THEN n ELSE i)

\* lst[i:j]
GetSlice(lst, i, j) ==
  LET lo == PyIndex(i, Len(lst))
      hi == PyIndex(j, Len(lst))
  IN IF hi <= lo THEN <<>> ELSE SubSeq(lst, lo + 1, hi)

\* del lst[i:j]
DelSlice(lst, i, j) ==
  LET lo == PyIndex(i, Len(lst))
      hi == PyIndex(j, Len(lst))
  IN IF hi <= lo THEN lst ELSE SubSeq(lst, 1, lo) \o SubSeq(lst, hi + 1, Len(lst))

\* [e] * n
Repeat(e, n) == IF n <= 0 THEN <<>> ELSE [i \in 1..n |-> e]

(***************************************************************************)
(* SimpleEventSequence                                                     *)
(***************************************************************************)
\* _from_event_list
FromEventList(pad_event, events, start_step, steps_per_bar, steps_per_quarter) ==
  [pad_event |-> pad_event,
   events |-> events,
   start_step |-> start_step,
   end_step |-> start_step + Len(events),
   steps_per_bar |-> steps_per_bar,
   steps_per_quarter |-> steps_per_quarter]

\* __init__; events = None and events = [] construct the same object, so the
\* absent list is drawn as the empty one
SimpleInit(pad_event, events, start_step, steps_per_bar, steps_per_quarter) ==
  IF events # <<>>
  THEN FromEventList(pad_event, events, start_step, steps_per_bar, steps_per_quarter)
  ELSE [pad_event |-> pad_event,
        events |-> <<>>,
        start_step |-> start_step,
        end_step |-> start_step,
        steps_per_bar |-> steps_per_bar,
        steps_per_quarter |-> steps_per_quarter]

\* __deepcopy__
Deepcopy(self) ==
  SimpleInit(self.pad_event, self.events, self.start_step,
             self.steps_per_bar, self.steps_per_quarter)

\* an __eq__ that compares pad_event as well
SimpleEqWithPad(self, other) ==
  /\ self.pad_event = other.pad_event
  /\ self.events = other.events
  /\ self.steps_per_bar = other.steps_per_bar
  /\ self.steps_per_quarter = other.steps_per_quarter
  /\ self.start_step = other.start_step
  /\ self.end_step = other.end_step

\* __eq__ (both operands SimpleEventSequence objects)
SimpleEq(self, other) ==
  /\ self.events = other.events
  /\ self.steps_per_bar = other.steps_per_bar
  /\ self.steps_per_quarter = other.steps_per_quarter
  /\ self.start_step = other.start_step
  /\ self.end_step = other.end_step

\* an append that does not advance end_step
SimpleAppendKeepsEndStep(self, event) ==
  [self EXCEPT !.events = Append(@, event)]

\* append
SimpleAppend(self, event) ==
  [self EXCEPT !.events = Append(@, event), !.end_step = @ + 1]

\* set_length
SimpleSetLength(self, steps, from_left) ==
  LET n == Len(self.events)
      new_events ==
        IF steps > n
        THEN IF from_left
             THEN Repeat(self.pad_event, steps - n) \o self.events
             ELSE self.events \o Repeat(self.pad_event, steps - n)
        ELSE IF from_left
             THEN DelSlice(self.events, 0, 0 - steps)
             ELSE DelSlice(self.events, steps, n)
  IN IF from_left
     THEN [self EXCEPT !.events = new_events, !.start_step = self.end_step - steps]
     ELSE [self EXCEPT !.events = new_events, !.end_step = self.start_step + steps]

\* a `fill` that tests the truth of fill_event (`if not fill_event`)
\* instead of `fill_event is None`
FillIfFalse(event, k, fill_event) ==
  IF fill_event \in {None, Zero} THEN Repeat(event, k)
  ELSE <<event>> \o Repeat(fill_event, k - 1)

\* the lambda `fill` of increase_resolution
Fill(event, k, fill_event) ==
  IF fill_event = None THEN Repeat(event, k)
  ELSE <<event>> \o Repeat(fill_event, k - 1)

RECURSIVE FillAll(_, _, _)
FillAll(events, k, fill_event) ==
  IF events = <<>> THEN <<>>
  ELSE Fill(Head(events), k, fill_event) \o FillAll(Tail(events), k, fill_event)

\* increase_resolution
IncreaseResolution(self, k, fill_event) ==
  [self EXCEPT !.events = FillAll(self.events, k, fill_event),
               !.start_step = @ * k,
               !.end_step = @ * k,
               !.steps_per_bar = @ * k,
               !.steps_per_quarter = @ * k]

(***************************************************************************)
(* RunLengthEncodedEventSequence.  A run is the tuple <<event, run_length>>.*)
(***************************************************************************)
\* the loop of __init__ over base_events, from position i on, with the
\* loop's locals and the list built so far, and the flush that follows it
RECURSIVE EncodeLoop(_, _, _, _, _, _)
EncodeLoop(base, i, current_event, current_run_length, events, max_run_length) ==
  IF i > Len(base)
  THEN IF current_run_length > 0
       THEN Append(events, <<current_event, current_run_length>>)
       ELSE events
  ELSE LET event == base[i]
       IN IF event # current_event \/ current_run_length = max_run_length
          THEN EncodeLoop(base, i + 1, event, 1,
                          IF current_run_length > 0
                          THEN Append(events, <<current_event, current_run_length>>)
                          ELSE events,
                          max_run_length)
          ELSE EncodeLoop(base, i + 1, current_event, current_run_length + 1,
                          events, max_run_length)

\* a constructor that never closes a run at max_run_length
RLEInitNoCap(base_events, max_run_length) ==
  [pad_event |-> base_events.pad_event,
   max_run_length |-> max_run_length,
   events |-> EncodeLoop(base_events.events, 1, None, 0, <<>>, 0 - 1),
   start_step |-> base_events.start_step,
   steps_per_quarter |-> base_events.steps_per_quarter]

\* __init__ (base_events a SimpleEventSequence)
RLEInit(base_events, max_run_length) ==
  [pad_event |-> base_events.pad_event,
   max_run_length |-> max_run_length,
   events |-> EncodeLoop(base_events.events, 1, None, 0, <<>>, max_run_length),
   start_step |-> base_events.start_step,
   steps_per_quarter |-> base_events.steps_per_quarter]

\* the keyword parameters __init__ declares besides base_events
InitKeywords == {"max_run_length"}

\* the call RunLengthEncodedEventSequence(base_events, max_run_length, **kw)
\* with the keywords `keywords` passed: a keyword the signature of __init__
\* does not declare raises TypeError before the body runs; the body checks
\* nothing about max_run_length
RLEInitCall(base_events, max_run_length, keywords) ==
  IF ~(keywords \subseteq InitKeywords)
  THEN [raised |-> TRUE, self |-> NoObject]
  ELSE [raised |-> FALSE, self |-> RLEInit(base_events, max_run_length)]

\* sum(run_length for event, run_length in events)
RECURSIVE SumRunLengths(_)
SumRunLengths(events) ==
  IF events = <<>> THEN 0 ELSE Head(events)[2] + SumRunLengths(Tail(events))

\* num_steps
NumSteps(self) == SumRunLengths(self.events)

\* end_step
RLEEndStep(self) == self.start_step + NumSteps(self)

\* an append that does not compare run_length with max_run_length
RLEAppendNoUpperCheck(self, base_event, run_length) ==
  IF run_length < 1 THEN [raised |-> TRUE, self |-> self]
  ELSE [raised |-> FALSE,
        self |-> [self EXCEPT !.events = Append(@, <<base_event, run_length>>)]]

\* an append that extends the last run when it holds the same event and
\* has room below max_run_length
RLEAppendMerging(self, base_event, run_length) ==
  IF run_length < 1 THEN [raised |-> TRUE, self |-> self]
  ELSE IF run_length > self.max_run_length THEN [raised |-> TRUE, self |-> self]
  ELSE IF /\ self.events # <<>>
          /\ self.events[Len(self.events)][1] = base_event
          /\ self.events[Len(self.events)][2] + run_length <= self.max_run_length
       THEN [raised |-> FALSE,
             self |-> [self EXCEPT !.events[Len(self.events)] =
                         <<base_event, @[2] + run_length>>]]
       ELSE [raised |-> FALSE,
             self |-> [self EXCEPT !.events = Append(@, <<base_event, run_length>>)]]

\* append of the tuple (base_event, run_length), run_length an integer
RLEAppend(self, base_event, run_length) ==
  IF run_length < 1 THEN [raised |-> TRUE, self |-> self]
  ELSE IF run_length > self.max_run_length THEN [raised |-> TRUE, self |-> self]
  ELSE [raised |-> FALSE,
        self |-> [self EXCEPT !.events = Append(@, <<base_event, run_length>>)]]

\* Python values passed to append, tagged with their type: a tuple carries
\* its items, an int its value
IntValue(n) == [type |-> "int", value |-> n]
TupleValue(items) == [type |-> "tuple", items |-> items]

\* append(event) for any argument: the isinstance / len checks on the
\* argument and on its run-length, then the checks of RLEAppend
RLEAppendValue(self, event) ==
  IF event.type # "tuple" THEN [raised |-> TRUE, self |-> self]
  ELSE IF Len(event.items) # 2 THEN [raised |-> TRUE, self |-> self]
  ELSE IF event.items[2].type # "int" THEN [raised |-> TRUE, self |-> self]
  ELSE RLEAppend(self, event.items[1], event.items[2].value)

\* padding whose runs are not capped at max_run_length
PaddingNoCap(self, steps) ==
  IF steps > 0 THEN <<<<self.pad_event, steps>>>> ELSE <<>>

\* _padding
RECURSIVE Padding(_, _)
Padding(self, steps) ==
  IF steps > 0
  THEN LET added_steps == IF steps < self.max_run_length
                          THEN steps ELSE self.max_run_length
       IN <<<<self.pad_event, added_steps>>>> \o Padding(self, steps - added_steps)
  ELSE <<>>

\* a loop without the flush that follows it: the run still open at the end
\* of the list is lost
RECURSIVE StandardizeLoopNoFlush(_, _, _, _, _, _)
StandardizeLoopNoFlush(events, i, current_event, current_run_length, new_events, max_run_length) ==
  IF i > Len(events) THEN new_events
  ELSE LET event == events[i][1]
           run_length == events[i][2]
           changed == event # current_event
           flushed == IF changed /\ current_run_length > 0
                      THEN Append(new_events, <<current_event, current_run_length>>)
                      ELSE new_events
           cur_event == IF changed THEN event ELSE current_event
           cur_len == (IF changed THEN 0 ELSE current_run_length) + run_length
       IN IF cur_len >= max_run_length
          THEN StandardizeLoopNoFlush(events, i + 1, cur_event,
                                      cur_len - max_run_length,
                                      Append(flushed, <<cur_event, max_run_length>>),
                                      max_run_length)
          ELSE StandardizeLoopNoFlush(events, i + 1, cur_event, cur_len, flushed,
                                      max_run_length)

\* a loop that, once a run reaches max_run_length, writes out what is left
\* over at once instead of carrying it into the next run
RECURSIVE StandardizeLoopEagerFlush(_, _, _, _, _, _)
StandardizeLoopEagerFlush(events, i, current_event, current_run_length, new_events, max_run_length) ==
  IF i > Len(events)
  THEN IF current_run_length > 0
       THEN Append(new_events, <<current_event, current_run_length>>)
       ELSE new_events
  ELSE LET event == events[i][1]
           run_length == events[i][2]
           changed == event # current_event
           flushed == IF changed /\ current_run_length > 0
                      THEN Append(new_events, <<current_event, current_run_length>>)
                      ELSE new_events
           cur_event == IF changed THEN event ELSE current_event
           cur_len == (IF changed THEN 0 ELSE current_run_length) + run_length
           full == Append(flushed, <<cur_event, max_run_length>>)
       IN IF cur_len >= max_run_length
          THEN StandardizeLoopEagerFlush(events, i + 1, cur_event, 0,
                 IF cur_len > max_run_length
                 THEN Append(full, <<cur_event, cur_len - max_run_length>>)
                 ELSE full,
                 max_run_length)
          ELSE StandardizeLoopEagerFlush(events, i + 1, cur_event, cur_len, flushed,
                                         max_run_length)

\* the loop of _standardize_run_lengths, from position i on, and the flush
\* that follows it
RECURSIVE StandardizeLoop(_, _, _, _, _, _)
StandardizeLoop(events, i, current_event, current_run_length, new_events, max_run_length) ==
  IF i > Len(events)
  THEN IF current_run_length > 0
       THEN Append(new_events, <<current_event, current_run_length>>)
       ELSE new_events
  ELSE LET event == events[i][1]
           run_length == events[i][2]
           changed == event # current_event
           flushed == IF changed /\ current_run_length > 0
                      THEN Append(new_events, <<current_event, current_run_length>>)
                      ELSE new_events
           cur_event == IF changed THEN event ELSE current_event
           cur_len == (IF changed THEN 0 ELSE current_run_length) + run_length
       IN IF cur_len >= max_run_length
          THEN StandardizeLoop(events, i + 1, cur_event, cur_len - max_run_length,
                               Append(flushed, <<cur_event, max_run_length>>),
                               max_run_length)
          ELSE StandardizeLoop(events, i + 1, cur_event, cur_len, flushed,
                               max_run_length)

\* a standardization that leaves the runs as they are
StandardizeNothing(self) == self

\* _standardize_run_lengths
StandardizeRunLengths(self) ==
  [self EXCEPT !.events =
     StandardizeLoop(self.events, 1, None, 0, <<>>, self.max_run_length)]

\* the from_left loop of set_length: `self._events = self._events[0:]`
\* keeps every run
RECURSIVE RemoveFromLeft(_, _)
RemoveFromLeft(events, steps_to_remove) ==
  IF steps_to_remove > 0
  THEN LET event == events[1][1]
           run_length == events[1][2]
       IN IF run_length > steps_to_remove
          THEN RemoveFromLeft(
                 [events EXCEPT ![1] = <<event, run_length - steps_to_remove>>], 0)
          ELSE RemoveFromLeft(GetSlice(events, 0, Len(events)),
                              steps_to_remove - run_length)
  ELSE events

\* the from-the-right loop of set_length: `self._events = self._events[:-1]`
RECURSIVE RemoveFromRight(_, _)
RemoveFromRight(events, steps_to_remove) ==
  IF steps_to_remove > 0
  THEN LET event == events[Len(events)][1]
           run_length == events[Len(events)][2]
       IN IF run_length > steps_to_remove
          THEN RemoveFromRight(
                 [events EXCEPT ![Len(events)] = <<event, run_length - steps_to_remove>>], 0)
          ELSE RemoveFromRight(GetSlice(events, 0, 0 - 1),
                               steps_to_remove - run_length)
  ELSE events

\* set_length
RLESetLength(self, steps, from_left) ==
  LET resized ==
        IF steps > NumSteps(self)
        THEN LET steps_to_add == steps - NumSteps(self)
             IN IF from_left
                THEN [self EXCEPT !.start_step = @ - steps_to_add,
                                  !.events = Padding(self, steps_to_add) \o @]
                ELSE [self EXCEPT !.events = @ \o Padding(self, steps_to_add)]
        ELSE LET steps_to_remove == NumSteps(self) - steps
             IN IF from_left
                THEN [self EXCEPT !.start_step = @ + steps_to_remove,
                                  !.events = RemoveFromLeft(@, steps_to_remove)]
                ELSE [self EXCEPT !.events = RemoveFromRight(@, steps_to_remove)]
  IN StandardizeRunLengths(resized)

\* the inner loop of decode: `for _ in range(run_length): base_events.append(event)`
RECURSIVE AppendTimes(_, _, _)
AppendTimes(base_events, event, run_length) ==
  IF run_length <= 0 THEN base_events
  ELSE AppendTimes(SimpleAppend(base_events, event), event, run_length - 1)

\* the outer loop of decode, from run i on
RECURSIVE DecodeLoop(_, _, _)
DecodeLoop(events, i, base_events) ==
  IF i > Len(events) THEN base_events
  ELSE DecodeLoop(events, i + 1, AppendTimes(base_events, events[i][1], events[i][2]))

\* a decode that appends every run's event once
DecodeOncePerRun(self, base_events) ==
  IF Len(base_events.events) > 0
  THEN [raised |-> TRUE, base_events |-> base_events]
  ELSE [raised |-> FALSE,
        base_events |-> DecodeLoop([i \in 1..Len(self.events) |->
                                      <<self.events[i][1], 1>>], 1, base_events)]

\* a decode that does not look at the target before appending to it
DecodeNoCheck(self, base_events) ==
  [raised |-> FALSE, base_events |-> DecodeLoop(self.events, 1, base_events)]

\* decode
Decode(self, base_events) ==
  IF Len(base_events.events) > 0
  THEN [raised |-> TRUE, base_events |-> base_events]
  ELSE [raised |-> FALSE,
        base_events |-> DecodeLoop(self.events, 1, base_events)]

\* the underlying event sequence of a list of runs
RECURSIVE Expand(_)
Expand(events) ==
  IF events = <<>> THEN <<>>
  ELSE Repeat(Head(events)[1], Head(events)[2]) \o Expand(Tail(events))

(***************************************************************************)
(* Specification SpecPlain: one SimpleEventSequence under any sequence of  *)
(* append, set_length and increase_resolution calls.                       *)
(***************************************************************************)
InRange(self) ==
  /\ self.start_step \in Steps
  /\ self.end_step \in Steps
  /\ Len(self.events) <= MaxLen

InitPlain ==
  /\ \E pad_event \in PadEvents, events \in SeqsUpTo(RunEventValues, InitLen),
        start_step \in 0..1 :
       seq = SimpleInit(pad_event, events, start_step, 4, 1)
  /\ rle = NoObject
  /\ decoded = NoObject
  /\ heap = NoObject
  /\ twin = NoObject
  /\ op = [name |-> "init"]

PlainAppend ==
  \E event \in RunEventValues :
    /\ InRange(SimpleAppend(seq, event))
    /\ seq' = SimpleAppend(seq, event)
    /\ op' = [name |-> "append", event |-> event, pre |-> seq]
    /\ UNCHANGED <<rle, decoded, twin, heap>>

PlainSetLength ==
  \E steps \in 0..MaxLen, from_left \in BOOLEAN :
    /\ InRange(SimpleSetLength(seq, steps, from_left))
    /\ seq' = SimpleSetLength(seq, steps, from_left)
    /\ op' = [name |-> "set_length", steps |-> steps, from_left |-> from_left,
              pre |-> seq]
    /\ UNCHANGED <<rle, decoded, twin, heap>>

PlainIncreaseResolution ==
  \E k \in 1..MaxK, fill_event \in {None, Zero} :
    /\ InRange(IncreaseResolution(seq, k, fill_event))
    /\ seq.steps_per_bar * k <= 4 * MaxK
    /\ seq' = IncreaseResolution(seq, k, fill_event)
    /\ op' = [name |-> "increase_resolution", k |-> k, fill_event |-> fill_event,
              pre |-> seq]
    /\ UNCHANGED <<rle, decoded, twin, heap>>

NextPlain == PlainAppend \/ PlainSetLength \/ PlainIncreaseResolution

SpecPlain == InitPlain /\ [][NextPlain]_vars

\* C2: in every state reachable by append, set_length and increase_resolution,
\* end_step - start_step == len(events).
C2_StepBookkeeping ==
  seq.end_step - seq.start_step = Len(seq.events)

\* C3: after set_length(steps, from_left) returns, len(events) == steps and
\* end_step - start_step == steps, for every steps >= 0 and both from_left.
C3_SetLengthPost ==
  op.name = "set_length" =>
    /\ Len(seq.events) = op.steps
    /\ seq.end_step - seq.start_step = op.steps

\* C18: append(event) places the event at the end, leaves the earlier
\* events, start_step, steps_per_bar and steps_per_quarter unchanged and
\* increases end_step by exactly 1.
C18_PlainAppend ==
  op.name = "append" =>
    /\ Len(seq.events) = Len(op.pre.events) + 1
    /\ seq.events[Len(seq.events)] = op.event
    /\ \A i \in 1..Len(op.pre.events) : seq.events[i] = op.pre.events[i]
    /\ seq.start_step = op.pre.start_step
    /\ seq.steps_per_bar = op.pre.steps_per_bar
    /\ seq.steps_per_quarter = op.pre.steps_per_quarter
    /\ seq.end_step = op.pre.end_step + 1

\* C18 witness: an event was appended to a sequence that held two events.
C18_Witness ==
  /\ op.name = "append"
  /\ Len(op.pre.events) = 2
  /\ op.event # op.pre.events[2]

\* C19: set_length against a reference, E the events before the call and n
\* their number: from_left=false gives the first min(n, steps) events of E
\* then max(0, steps - n) pad events, start_step unchanged; from_left=true
\* gives max(0, steps - n) pad events then the last min(n, steps) events of
\* E, end_step unchanged; steps == n changes nothing.
C19_SetLengthReference ==
  op.name = "set_length" =>
    LET E == op.pre.events
        n == Len(E)
        kept == IF n < op.steps THEN n ELSE op.steps
        pads == [i \in 1..(op.steps - n) |-> op.pre.pad_event]
    IN /\ IF op.from_left
          THEN /\ seq.events = pads \o SubSeq(E, n - kept + 1, n)
               /\ seq.end_step = op.pre.end_step
          ELSE /\ seq.events = SubSeq(E, 1, kept) \o pads
               /\ seq.start_step = op.pre.start_step
       /\ op.steps = n => seq = op.pre

\* C20: increase_resolution(k, fill_event), k >= 1, replaces each event e in
\* place by k elements: k copies of e when fill_event is None, e then k - 1
\* copies of fill_event otherwise (0 counts as set); start_step, end_step,
\* steps_per_bar and steps_per_quarter are each multiplied by k.
C20_IncreaseResolution ==
  op.name = "increase_resolution" =>
    /\ Len(seq.events) = op.k * Len(op.pre.events)
    /\ \A j \in 1..Len(seq.events) :
         seq.events[j] =
           IF (j - 1) % op.k = 0 \/ op.fill_event = None
           THEN op.pre.events[((j - 1) \div op.k) + 1]
           ELSE op.fill_event
    /\ seq.start_step = op.k * op.pre.start_step
    /\ seq.end_step = op.k * op.pre.end_step
    /\ seq.steps_per_bar = op.k * op.pre.steps_per_bar
    /\ seq.steps_per_quarter = op.k * op.pre.steps_per_quarter

\* C20 witness: a sequence of two different events at a start_step other
\* than 0 was refined by k = 2 with fill_event 0.
C20_Witness ==
  /\ op.name = "increase_resolution"
  /\ op.k = 2
  /\ op.fill_event = Zero
  /\ Len(op.pre.events) = 2
  /\ op.pre.events[1] # op.pre.events[2]
  /\ op.pre.start_step # 0

(***************************************************************************)
(* Specification SpecEncode: a SimpleEventSequence is constructed, run-    *)
(* length encoded, and decoded into an emptied deep copy of itself (the    *)
(* steps of testEncode and testDecode).                                    *)
(***************************************************************************)
InitEncode ==
  /\ \E pad_event \in PadEvents, events \in SeqsUpTo(EventValues, EncLen),
        start_step \in 0..1 :
       seq = SimpleInit(pad_event, events, start_step, 4, 1)
  /\ rle = NoObject
  /\ decoded = NoObject
  /\ heap = NoObject
  /\ twin = NoObject
  /\ op = [name |-> "init"]

\* events = RunLengthEncodedEventSequence(base_events, max_run_length)
Construct ==
  /\ op.name = "init"
  /\ \E max_run_length \in 1..MaxRun :
       rle' = RLEInit(seq, max_run_length)
  /\ op' = [name |-> "encode"]
  /\ UNCHANGED <<seq, decoded, twin, heap>>

\* decoded_events = copy.deepcopy(base_events); decoded_events.set_length(0)
CopyAndEmpty ==
  /\ op.name = "encode"
  /\ decoded' = SimpleSetLength(Deepcopy(seq), 0, FALSE)
  /\ op' = [name |-> "copy"]
  /\ UNCHANGED <<seq, rle, twin, heap>>

\* events.decode(decoded_events)
DecodeCopy ==
  /\ op.name = "copy"
  /\ decoded' = Decode(rle, decoded).base_events
  /\ op' = [name |-> "decode", raised |-> Decode(rle, decoded).raised]
  /\ UNCHANGED <<seq, rle, twin, heap>>

NextEncode == Construct \/ CopyAndEmpty \/ DecodeCopy

SpecEncode == InitEncode /\ [][NextEncode]_vars

\* C1: round trip: encoding S with any max_run_length >= 1 and decoding into
\* an emptied deep copy of S gives the events, start_step and end_step of S.
C1_RoundTrip ==
  op.name = "decode" =>
    /\ ~op.raised
    /\ decoded.events = seq.events
    /\ decoded.start_step = seq.start_step
    /\ decoded.end_step = seq.end_step

\* C1 witness: a sequence with a repeated event was compressed and decoded.
C1_Witness ==
  /\ op.name = "decode"
  /\ Len(seq.events) = EncLen
  /\ Len(rle.events) < Len(seq.events)
  /\ Len(rle.events) > 1

\* the runs of a block of `total` equal events: floor(total / m) runs of
\* length m, then one run of length total mod m when that is not zero
BlockRuns(event, total, m) ==
  [i \in 1..(total \div m) |-> <<event, m>>]
    \o (IF total % m # 0 THEN <<<<event, total % m>>>> ELSE <<>>)

\* the length of the maximal block of equal events that starts at position i
RECURSIVE BlockLen(_, _)
BlockLen(events, i) ==
  IF i < Len(events) /\ events[i + 1] = events[i]
  THEN 1 + BlockLen(events, i + 1) ELSE 1

\* the greedy run list of events[i..], block by block
RECURSIVE GreedyRuns(_, _, _)
GreedyRuns(events, i, m) ==
  IF i > Len(events) THEN <<>>
  ELSE BlockRuns(events[i], BlockLen(events, i), m)
         \o GreedyRuns(events, i + BlockLen(events, i), m)

\* C10: the constructed run list is the greedy one (per maximal block of T
\* equal events, floor(T/m) runs of m then one of T mod m), and start_step
\* and end_step are those of the base sequence.
C10_GreedyEncoding ==
  op.name = "encode" =>
    /\ rle.events = GreedyRuns(seq.events, 1, rle.max_run_length)
    /\ rle.start_step = seq.start_step
    /\ RLEEndStep(rle) = seq.end_step

\* C10 witness: ['A','A','A','B','B'] with cap 2 was encoded, the block of
\* three split into a full run and a remainder.
C10_Witness ==
  /\ op.name = "encode"
  /\ seq.events = <<"A", "A", "A", "B", "B">>
  /\ rle.events = << <<"A", 2>>, <<"A", 1>>, <<"B", 2>> >>

(***************************************************************************)
(* Specification SpecRle: one RunLengthEncodedEventSequence, constructed   *)
(* from a SimpleEventSequence, under any sequence of append and set_length *)
(* calls.                                                                  *)
(***************************************************************************)
RLEInRange(self) ==
  /\ self.start_step \in Steps
  /\ RLEEndStep(self) \in Steps
  /\ NumSteps(self) <= MaxSteps

InitRle ==
  /\ \E pad_event \in PadEvents, events \in SeqsUpTo(RunEventValues, MaxSteps),
        start_step \in 0..1, max_run_length \in 1..MaxRun :
       rle = RLEInit(SimpleInit(pad_event, events, start_step, 4, 1), max_run_length)
  /\ seq = NoObject
  /\ decoded = NoObject
  /\ heap = NoObject
  /\ twin = NoObject
  /\ op = [name |-> "init"]

\* the arguments append is called with: every (base event, run length)
\* tuple with a run length in 0 .. MaxRun + 1, a value that is no tuple,
\* tuples of one and of three items, and run lengths that are no int
AppendArgs ==
  {TupleValue(<<base_event, IntValue(run_length)>>) :
     base_event \in RunEventValues, run_length \in 0..(MaxRun + 1)}
  \cup {[type |-> "str", value |-> "A"],
        TupleValue(<<"A">>),
        TupleValue(<<"A", IntValue(1), IntValue(1)>>),
        TupleValue(<<"A", [type |-> "float", value |-> "1.0"]>>),
        TupleValue(<<"A", [type |-> "str", value |-> "x"]>>)}

\* events.append(event); a refused argument raises ValueError
RleAppend ==
  \E event \in AppendArgs :
    LET result == RLEAppendValue(rle, event)
    IN /\ RLEInRange(result.self)
       /\ rle' = result.self
       /\ op' = [name |-> "append", event |-> event,
                 raised |-> result.raised,
                 pre |-> rle]
       /\ decoded' = NoObject
       /\ UNCHANGED <<seq, twin, heap>>

\* events.set_length(steps, from_left)
RleSetLength ==
  \E steps \in 0..MaxSteps, from_left \in BOOLEAN :
    LET result == RLESetLength(rle, steps, from_left)
    IN /\ RLEInRange(result)
       /\ rle' = result
       /\ op' = [name |-> "set_length", steps |-> steps, from_left |-> from_left,
                 pre |-> rle]
       /\ decoded' = NoObject
       /\ UNCHANGED <<seq, twin, heap>>

\* the targets decode is called with: SimpleEventSequences holding no event
\* or one event
DecodeTargets ==
  {SimpleInit(pad_event, events, start_step, 4, 1) :
     pad_event \in PadEvents, events \in SeqsUpTo(RunEventValues, 1),
     start_step \in 0..1}

\* events.decode(target); `decoded` is the target of the latest decode call
\* and is dropped by the caller before the next append or set_length
RleDecode ==
  \E target \in DecodeTargets :
    LET result == Decode(rle, target)
    IN /\ decoded' = result.base_events
       /\ op' = [name |-> "decode", target |-> target,
                 raised |-> result.raised,
                 pre |-> rle]
       /\ UNCHANGED <<seq, rle, twin, heap>>

NextRle == RleAppend \/ RleSetLength \/ RleDecode

SpecRle == InitRle /\ [][NextRle]_vars

\* C4: after set_length(steps, from_left) returns, num_steps == steps, for
\* every steps >= 0 and both values of from_left.
C4_RleSetLengthPost ==
  op.name = "set_length" => NumSteps(rle) = op.steps

\* C5: the expansion of the runs after set_length(steps, from_left) is the
\* event list SimpleEventSequence.set_length(steps, from_left) leaves when
\* applied to the expansion of the runs before the call, same pad event.
C5_RleSetLengthRefinesPlain ==
  op.name = "set_length" =>
    Expand(rle.events) =
      SimpleSetLength(
        SimpleInit(op.pre.pad_event, Expand(op.pre.events), op.pre.start_step, 4, 1),
        op.steps, op.from_left).events

\* C6: set_length(steps, from_left=false) leaves start_step unchanged and
\* makes end_step == start_step + steps; set_length(steps, from_left=true)
\* leaves end_step unchanged and makes start_step == end_step - steps.
C6_RleSetLengthBounds ==
  op.name = "set_length" =>
    IF op.from_left
    THEN /\ RLEEndStep(rle) = RLEEndStep(op.pre)
         /\ rle.start_step = RLEEndStep(rle) - op.steps
    ELSE /\ rle.start_step = op.pre.start_step
         /\ RLEEndStep(rle) = rle.start_step + op.steps

\* C7: every stored run has a run length r with 1 <= r <= max_run_length.
C7_RunLengthBound ==
  \A i \in 1..Len(rle.events) :
    /\ rle.events[i][2] \in Int
    /\ 1 <= rle.events[i][2]
    /\ rle.events[i][2] <= rle.max_run_length

\* C7 witness: a set_length call grew the sequence by more pad events than
\* one run may hold.
C7_Witness ==
  /\ op.name = "set_length"
  /\ op.steps - NumSteps(op.pre) > rle.max_run_length
  /\ Len(rle.events) > 1

\* some run with length below max_run_length precedes a run of the same event
NonStandard(self) ==
  \E i \in 1..(Len(self.events) - 1) :
    /\ self.events[i][1] = self.events[i + 1][1]
    /\ self.events[i][2] < self.max_run_length

\* C8: right after any set_length call no run with run length below
\* max_run_length is followed by a run of the same event.
C8_CanonicalAfterSetLength ==
  op.name = "set_length" => ~NonStandard(rle)

\* C8 witness: set_length was called on a sequence whose appends had left
\* adjacent runs of one event, the earlier below the cap, and merged them.
C8_Witness ==
  /\ op.name = "set_length"
  /\ NonStandard(op.pre)
  /\ Len(rle.events) < Len(op.pre.events)
  /\ NumSteps(rle) >= NumSteps(op.pre)

\* every non-pad run of the sequence has run length 1
PadOnlyForm(self) ==
  \A i \in 1..Len(self.events) :
    self.events[i][1] # self.pad_event => self.events[i][2] = 1

\* C12: on a sequence in pad-only form (what only_encode_pad_event=true is
\* to construct), after any set_length call every run whose event is not the
\* pad event still has run length 1.
C12_PadOnlySurvivesSetLength ==
  (op.name = "set_length" /\ PadOnlyForm(op.pre)) => PadOnlyForm(rle)

\* the argument of append is not a 2-tuple, or its run length is not an
\* integer, is < 1 or is > max_run_length
Malformed(event, self) ==
  \/ event.type # "tuple"
  \/ Len(event.items) # 2
  \/ event.items[2].type # "int"
  \/ event.items[2].value < 1
  \/ event.items[2].value > self.max_run_length

\* C16: append of a malformed argument raises and leaves the run list,
\* start_step and end_step unchanged.
C16_AppendValidates ==
  (op.name = "append" /\ Malformed(op.event, op.pre)) =>
    /\ op.raised
    /\ rle.events = op.pre.events
    /\ rle.start_step = op.pre.start_step
    /\ RLEEndStep(rle) = RLEEndStep(op.pre)

\* C16 witness: a 2-tuple with a run length above max_run_length was
\* refused on a non-empty sequence.
C16_Witness ==
  /\ op.name = "append"
  /\ op.raised
  /\ op.event.type = "tuple"
  /\ Len(op.event.items) = 2
  /\ op.event.items[2].type = "int"
  /\ op.event.items[2].value > op.pre.max_run_length
  /\ op.pre.events # <<>>

\* C17: append of a valid run (e, r) adds exactly the run (e, r) at the end,
\* unmerged, leaves the earlier runs and start_step unchanged and increases
\* end_step by r.
C17_AppendAddsOneRun ==
  (op.name = "append" /\ ~Malformed(op.event, op.pre)) =>
    /\ ~op.raised
    /\ Len(rle.events) = Len(op.pre.events) + 1
    /\ rle.events[Len(rle.events)] = <<op.event.items[1], op.event.items[2].value>>
    /\ \A i \in 1..Len(op.pre.events) : rle.events[i] = op.pre.events[i]
    /\ rle.start_step = op.pre.start_step
    /\ RLEEndStep(rle) = RLEEndStep(op.pre) + op.event.items[2].value

\* C17 witness: a run was appended behind a run of the same event that had
\* room for it below max_run_length.
C17_Witness ==
  /\ op.name = "append"
  /\ ~op.raised
  /\ op.pre.events # <<>>
  /\ op.pre.events[Len(op.pre.events)][1] = op.event.items[1]
  /\ op.pre.events[Len(op.pre.events)][2] + op.event.items[2].value
       <= op.pre.max_run_length

\* C13: decode into a target that holds at least one event raises and
\* leaves the target's events, start_step and end_step and the run-length
\* sequence's runs and start_step unchanged.
C13_DecodeRejectsNonEmptyTarget ==
  (op.name = "decode" /\ Len(op.target.events) >= 1) =>
    /\ op.raised
    /\ decoded.events = op.target.events
    /\ decoded.start_step = op.target.start_step
    /\ decoded.end_step = op.target.end_step
    /\ rle.events = op.pre.events
    /\ rle.start_step = op.pre.start_step

\* C13 witness: decode of a sequence with runs was refused for a target
\* holding an event.
C13_Witness ==
  /\ op.name = "decode"
  /\ op.raised
  /\ Len(op.target.events) = 1
  /\ rle.events # <<>>

\* C14: after decode into an empty target, the target's events are the
\* in-order expansion of the runs, target.start_step == start_step and
\* target.end_step == end_step of the run-length sequence.
C14_DecodeReproducesStepRange ==
  (op.name = "decode" /\ Len(op.target.events) = 0) =>
    /\ ~op.raised
    /\ decoded.events = Expand(rle.events)
    /\ decoded.start_step = rle.start_step
    /\ decoded.end_step = RLEEndStep(rle)

(***************************************************************************)
(* Specification SpecTwin: two RunLengthEncodedEventSequences with the     *)
(* same max_run_length, pad event and start_step that are kept expanding   *)
(* to the same underlying events by appends, and receive the same          *)
(* set_length calls.                                                       *)
(***************************************************************************)
\* append((base_event, lengths[1])), append((base_event, lengths[2])), ...
RECURSIVE AppendRuns(_, _, _)
AppendRuns(self, base_event, lengths) ==
  IF lengths = <<>> THEN self
  ELSE AppendRuns(RLEAppend(self, base_event, Head(lengths)).self,
                  base_event, Tail(lengths))

InitTwin ==
  /\ \E pad_event \in PadEvents, events \in SeqsUpTo(RunEventValues, 1),
        start_step \in 0..1, max_run_length \in 1..MaxRun :
       /\ rle = RLEInit(SimpleInit(pad_event, events, start_step, 4, 1), max_run_length)
       /\ twin = rle
  /\ seq = NoObject
  /\ decoded = NoObject
  /\ heap = NoObject
  /\ op = [name |-> "init"]

\* the ways to split `total` steps into runs of at most max_run_length
RECURSIVE Splits(_, _)
Splits(total, max_run_length) ==
  IF total = 0 THEN {<<>>}
  ELSE UNION {{<<first>> \o rest : rest \in Splits(total - first, max_run_length)} :
                first \in 1..(IF total < max_run_length THEN total ELSE max_run_length)}

\* the same number of steps of one event appended to both, split into runs
\* in two ways
TwinAppend ==
  /\ Expand(rle.events) = Expand(twin.events)
  /\ \E base_event \in RunEventValues, total \in 1..(MaxSteps - NumSteps(rle)) :
       \E lengths \in Splits(total, rle.max_run_length),
          twin_lengths \in Splits(total, rle.max_run_length) :
         /\ rle' = AppendRuns(rle, base_event, lengths)
         /\ twin' = AppendRuns(twin, base_event, twin_lengths)
  /\ op' = [name |-> "append"]
  /\ UNCHANGED <<seq, decoded, heap>>

\* the same set_length call on both
TwinSetLength ==
  \E steps \in 0..MaxSteps, from_left \in BOOLEAN :
    /\ Expand(rle.events) = Expand(twin.events)
    /\ RLEInRange(RLESetLength(rle, steps, from_left))
    /\ RLEInRange(RLESetLength(twin, steps, from_left))
    /\ rle' = RLESetLength(rle, steps, from_left)
    /\ twin' = RLESetLength(twin, steps, from_left)
    /\ op' = [name |-> "set_length", steps |-> steps, from_left |-> from_left]
    /\ UNCHANGED <<seq, decoded, heap>>

NextTwin == TwinAppend \/ TwinSetLength

SpecTwin == InitTwin /\ [][NextTwin]_vars

\* C9: two sequences with the same max_run_length, pad event and start_step
\* whose runs expand to the same events have identical run lists and
\* identical start_step after the same set_length call.
C9_CanonicalIsFunctionOfContent ==
  op.name = "set_length" =>
    /\ rle.events = twin.events
    /\ rle.start_step = twin.start_step

(***************************************************************************)
(* Specification SpecConstruct: one call of the constructor of             *)
(* RunLengthEncodedEventSequence on a constructed SimpleEventSequence,     *)
(* with any max_run_length and with or without only_encode_pad_event=True  *)
(* (testEncodeOnlyEncodePadEvent).                                         *)
(***************************************************************************)
InitConstruct ==
  /\ \E pad_event \in PadEvents, events \in SeqsUpTo(EventValues, MaxSteps),
        start_step \in 0..1 :
       seq = SimpleInit(pad_event, events, start_step, 4, 1)
  /\ rle = NoObject
  /\ decoded = NoObject
  /\ heap = NoObject
  /\ twin = NoObject
  /\ op = [name |-> "init"]

\* events = RunLengthEncodedEventSequence(base_events, max_run_length)
ConstructAny ==
  /\ op.name = "init"
  /\ \E max_run_length \in (0 - 1)..MaxRun :
       /\ rle' = RLEInitCall(seq, max_run_length, {}).self
       /\ op' = [name |-> "encode", only_encode_pad_event |-> FALSE,
                 max_run_length |-> max_run_length,
                 raised |-> RLEInitCall(seq, max_run_length, {}).raised]
  /\ UNCHANGED <<seq, decoded, twin, heap>>

\* events = RunLengthEncodedEventSequence(
\*     base_events, max_run_length, only_encode_pad_event=True)
ConstructPadOnly ==
  /\ op.name = "init"
  /\ \E max_run_length \in (0 - 1)..MaxRun :
       /\ rle' = RLEInitCall(seq, max_run_length, {"only_encode_pad_event"}).self
       /\ op' = [name |-> "encode", only_encode_pad_event |-> TRUE,
                 max_run_length |-> max_run_length,
                 raised |->
                   RLEInitCall(seq, max_run_length, {"only_encode_pad_event"}).raised]
  /\ UNCHANGED <<seq, decoded, twin, heap>>

NextConstruct == ConstructAny \/ ConstructPadOnly

SpecConstruct == InitConstruct /\ [][NextConstruct]_vars

\* the pad-only run list of events[i..]: every event that is not the pad
\* event is a run of length 1, a block of pad events is split greedily
RECURSIVE PadOnlyRuns(_, _, _, _)
PadOnlyRuns(events, i, pad_event, m) ==
  IF i > Len(events) THEN <<>>
  ELSE IF events[i] # pad_event
       THEN <<<<events[i], 1>>>> \o PadOnlyRuns(events, i + 1, pad_event, m)
       ELSE BlockRuns(pad_event, BlockLen(events, i), m)
              \o PadOnlyRuns(events, i + BlockLen(events, i), pad_event, m)

\* C11: constructed with only_encode_pad_event=true (max_run_length >= 1),
\* every base event that is not the pad event is its own run of length 1 and
\* consecutive pad events are merged into runs of at most max_run_length.
C11_PadOnlyEncoding ==
  (op.name = "encode" /\ op.only_encode_pad_event /\ op.max_run_length >= 1) =>
    /\ ~op.raised
    /\ rle.events = PadOnlyRuns(seq.events, 1, seq.pad_event, op.max_run_length)

\* C15: construction with max_run_length < 1 fails with an error, for every
\* base sequence, the empty one included.
C15_RejectsMaxRunLengthBelowOne ==
  (op.name = "encode" /\ ~op.only_encode_pad_event /\ op.max_run_length < 1) =>
    op.raised

(***************************************************************************)
(* Specification SpecResolution: increase_resolution called with any       *)
(* integer k, positive or not, on a constructed SimpleEventSequence and on  *)
(* what earlier calls left.                                                *)
(***************************************************************************)
InitResolution ==
  /\ \E pad_event \in PadEvents, events \in SeqsUpTo(RunEventValues, InitLen),
        start_step \in 0..1 :
       seq = SimpleInit(pad_event, events, start_step, 4, 1)
  /\ rle = NoObject
  /\ decoded = NoObject
  /\ heap = NoObject
  /\ twin = NoObject
  /\ op = [name |-> "init"]

\* increase_resolution(k, fill_event): the body has no check on k and no
\* statement that raises for an integer k ([e] * k is [] for k <= 0)
ResolutionCall ==
  \E k \in (0 - MaxK)..MaxK, fill_event \in {None, Zero} :
    /\ InRange(IncreaseResolution(seq, k, fill_event))
    /\ seq.steps_per_bar * k \in (0 - 4 * MaxK)..(4 * MaxK)
    /\ seq' = IncreaseResolution(seq, k, fill_event)
    /\ op' = [name |-> "increase_resolution", k |-> k, fill_event |-> fill_event,
              raised |-> FALSE, pre |-> seq]
    /\ UNCHANGED <<rle, decoded, twin, heap>>

NextResolution == ResolutionCall

SpecResolution == InitResolution /\ [][NextResolution]_vars

\* C21: increase_resolution(k) with k <= 0 fails with an error and leaves
\* events, start_step, end_step, steps_per_bar and steps_per_quarter
\* unchanged.
C21_RejectsNonPositiveK ==
  (op.name = "increase_resolution" /\ op.k <= 0) =>
    /\ op.raised
    /\ seq.events = op.pre.events
    /\ seq.start_step = op.pre.start_step
    /\ seq.end_step = op.pre.end_step
    /\ seq.steps_per_bar = op.pre.steps_per_bar
    /\ seq.steps_per_quarter = op.pre.steps_per_quarter

(***************************************************************************)
(* Objects that hold a reference to a list.  In the specifications below   *)
(* the field `events` of an object is a reference into `heap`, so that two  *)
(* objects can share one list, and every method says whether it mutates    *)
(* the list self._events refers to or binds self._events to a new list.    *)
(***************************************************************************)
\* longest list on the heap
HeapLen == 2
\* most calls made on two objects after one was made from the other
LaterCalls == 2

\* the list objects: at most two are referenced by objects at a time, one
\* more exists while a method builds the list it binds self._events to
Refs == {"list1", "list2", "list3"}

EmptyHeap == [r \in Refs |-> <<>>]

\* the object o with its list read from the heap h
Value(h, o) == [o EXCEPT !.events = h[o.events]]

\* the lists that the objects in `objects` refer to
LiveRefs(objects) == {o.events : o \in {x \in objects : x # NoObject}}

\* a list object that no object of `objects` refers to
Fresh(objects) == CHOOSE r \in Refs : r \notin LiveRefs(objects)

\* garbage collection: a list that no object refers to is gone
Collect(h, objects) ==
  [r \in Refs |-> IF r \in LiveRefs(objects) THEN h[r] ELSE <<>>]

\* the effect of a method that mutates the list self._events refers to
\* (append, extend, del, slice assignment): `result` is self after the call
InPlace(h, self, result) ==
  [heap |-> [h EXCEPT ![self.events] = result.events],
   self |-> [result EXCEPT !.events = self.events]]

\* the effect of a method or constructor that binds self._events to a list
\* it has built (`self._events = list(events)`, `self._events = new_events`)
Rebind(h, result, objects) ==
  LET r == Fresh(objects)
  IN [heap |-> [h EXCEPT ![r] = result.events],
      self |-> [result EXCEPT !.events = r]]

\* SimpleEventSequence(pad_event, events, ...): `self._events = list(events)`
HeapSimpleInit(h, pad_event, events, start_step, steps_per_bar, steps_per_quarter, objects) ==
  Rebind(h, SimpleInit(pad_event, events, start_step, steps_per_bar,
                       steps_per_quarter), objects)

\* __deepcopy__: copy.deepcopy(self._events) is a new list, and
\* _from_event_list copies it once more
HeapDeepcopy(h, self, objects) ==
  Rebind(h, Deepcopy(Value(h, self)), objects)

\* append: self._events.append(event)
HeapSimpleAppend(h, self, event) ==
  InPlace(h, self, SimpleAppend(Value(h, self), event))

\* set_length: slice assignment, extend or del on self._events
HeapSimpleSetLength(h, self, steps, from_left) ==
  InPlace(h, self, SimpleSetLength(Value(h, self), steps, from_left))

\* increase_resolution: self._events = new_events
HeapIncreaseResolution(h, self, k, fill_event, objects) ==
  Rebind(h, IncreaseResolution(Value(h, self), k, fill_event), objects)

(***************************************************************************)
(* Specification SpecCopy: a SimpleEventSequence `seq` under append,        *)
(* set_length and increase_resolution calls, its deep copy `twin`, and      *)
(* further append and set_length calls on either of the two.  op.other is  *)
(* the value, before the call, of the object the call is not made on.      *)
(***************************************************************************)
InHeapRange(self) ==
  /\ self.start_step \in 0..(HeapLen + 1)
  /\ self.end_step \in 0..(HeapLen + 1)
  /\ Len(self.events) <= HeapLen

InitCopy ==
  /\ \E pad_event \in PadEvents, events \in SeqsUpTo(RunEventValues, 1),
        start_step \in 0..1 :
       LET made == HeapSimpleInit(EmptyHeap, pad_event, events, start_step, 4, 1, {})
       IN /\ seq = made.self
          /\ heap = made.heap
  /\ twin = NoObject
  /\ rle = NoObject
  /\ decoded = NoObject
  /\ op = [name |-> "init", later |-> 0]

\* the number of calls made since the deep copy was taken, this one included
Later == IF twin = NoObject THEN 0 ELSE op.later + 1

CopyAppend ==
  \E target \in {"source", "copy"}, event \in RunEventValues :
    LET self == IF target = "source" THEN seq ELSE twin
    IN /\ self # NoObject
       /\ Later <= LaterCalls
       /\ LET result == HeapSimpleAppend(heap, self, event)
          IN /\ InHeapRange(Value(result.heap, result.self))
             /\ seq' = IF target = "source" THEN result.self ELSE seq
             /\ twin' = IF target = "copy" THEN result.self ELSE twin
             /\ heap' = result.heap
             /\ op' = [name |-> "append", target |-> target, later |-> Later,
                       other |-> LET o == IF target = "source" THEN twin ELSE seq
                                 IN IF o = NoObject THEN NoObject ELSE Value(heap, o)]
             /\ UNCHANGED <<rle, decoded>>

CopySetLength ==
  \E target \in {"source", "copy"}, steps \in 0..HeapLen, from_left \in BOOLEAN :
    LET self == IF target = "source" THEN seq ELSE twin
    IN /\ self # NoObject
       /\ Later <= LaterCalls
       /\ LET result == HeapSimpleSetLength(heap, self, steps, from_left)
          IN /\ InHeapRange(Value(result.heap, result.self))
             /\ seq' = IF target = "source" THEN result.self ELSE seq
             /\ twin' = IF target = "copy" THEN result.self ELSE twin
             /\ heap' = result.heap
             /\ op' = [name |-> "set_length", target |-> target, later |-> Later,
                       other |-> LET o == IF target = "source" THEN twin ELSE seq
                                 IN IF o = NoObject THEN NoObject ELSE Value(heap, o)]
             /\ UNCHANGED <<rle, decoded>>

\* increase_resolution on the source, before the deep copy is taken
CopyIncreaseResolution ==
  \E k \in 1..MaxK, fill_event \in {None, Zero} :
    LET result == HeapIncreaseResolution(heap, seq, k, fill_event, {seq, twin})
    IN /\ twin = NoObject
       /\ InHeapRange(Value(result.heap, result.self))
       /\ seq.steps_per_bar * k <= 4 * MaxK
       /\ seq' = result.self
       /\ heap' = Collect(result.heap, {result.self, twin})
       /\ op' = [name |-> "increase_resolution", target |-> "source", later |-> 0,
                 other |-> NoObject]
       /\ UNCHANGED <<twin, rle, decoded>>

\* twin = copy.deepcopy(seq)
CopyDeepcopy ==
  LET result == HeapDeepcopy(heap, seq, {seq})
  IN /\ twin = NoObject
     /\ twin' = result.self
     /\ heap' = Collect(result.heap, {seq, result.self})
     /\ op' = [name |-> "deepcopy", target |-> "source", later |-> 0,
               other |-> Value(heap, seq)]
     /\ UNCHANGED <<seq, rle, decoded>>

NextCopy ==
  CopyAppend \/ CopySetLength \/ CopyIncreaseResolution \/ CopyDeepcopy

SpecCopy == InitCopy /\ [][NextCopy]_vars

\* C22: in every state reachable by append, set_length and
\* increase_resolution calls the deep copy compares equal to the source, and
\* a later append or set_length on the source leaves the copy's events and
\* steps unchanged, and the other way round.
C22_DeepcopyEqualAndIndependent ==
  /\ op.name = "deepcopy" =>
       /\ SimpleEq(Value(heap, twin), Value(heap, seq))
       /\ Value(heap, seq) = op.other
  /\ (op.name \in {"append", "set_length"} /\ op.other # NoObject) =>
       IF op.target = "source"
       THEN Value(heap, twin) = op.other
       ELSE Value(heap, seq) = op.other

(***************************************************************************)
(* Specification SpecBase: a SimpleEventSequence `seq`, the                 *)
(* RunLengthEncodedEventSequence `rle` constructed from it, and append and  *)
(* set_length calls on either.  op.other is the value, before the call, of  *)
(* the object the call is not made on.                                     *)
(***************************************************************************)
\* a constructor that takes the events out of the base while it encodes them
HeapRLEInitConsuming(h, base_events, max_run_length, objects) ==
  LET made == Rebind(h, RLEInit(Value(h, base_events), max_run_length), objects)
  IN [made EXCEPT !.heap[base_events.events] = <<>>]

\* __init__: `self._events = []`, filled from an iteration over base_events
HeapRLEInit(h, base_events, max_run_length, objects) ==
  Rebind(h, RLEInit(Value(h, base_events), max_run_length), objects)

\* append: self._events.append((base_event, run_length))
HeapRLEAppend(h, self, base_event, run_length) ==
  LET result == RLEAppend(Value(h, self), base_event, run_length)
      stored == InPlace(h, self, result.self)
  IN [raised |-> result.raised, heap |-> stored.heap, self |-> stored.self]

\* set_length: _standardize_run_lengths ends it with
\* `self._events = new_events`
HeapRLESetLength(h, self, steps, from_left, objects) ==
  Rebind(h, RLESetLength(Value(h, self), steps, from_left), objects)

InRleHeapRange(self) ==
  /\ self.start_step \in 0..(HeapLen + 1)
  /\ RLEEndStep(self) \in 0..(HeapLen + 1)
  /\ Len(self.events) <= HeapLen

InitBase ==
  /\ \E pad_event \in PadEvents, events \in SeqsUpTo(RunEventValues, HeapLen),
        start_step \in 0..1 :
       LET made == HeapSimpleInit(EmptyHeap, pad_event, events, start_step, 4, 1, {})
       IN /\ seq = made.self
          /\ heap = made.heap
  /\ rle = NoObject
  /\ twin = NoObject
  /\ decoded = NoObject
  /\ op = [name |-> "init", later |-> 0]

\* the number of calls made since the encoding was constructed, this one
\* included
LaterBase == IF rle = NoObject THEN 0 ELSE op.later + 1

\* rle = RunLengthEncodedEventSequence(seq, max_run_length)
BaseEncode ==
  \E max_run_length \in 1..MaxRun :
    LET result == HeapRLEInit(heap, seq, max_run_length, {seq})
    IN /\ rle = NoObject
       /\ rle' = result.self
       /\ heap' = result.heap
       /\ op' = [name |-> "encode", target |-> "base", later |-> 0,
                 other |-> Value(heap, seq)]
       /\ UNCHANGED <<seq, twin, decoded>>

BaseAppend ==
  \/ \E event \in RunEventValues :
       LET result == HeapSimpleAppend(heap, seq, event)
       IN /\ LaterBase <= LaterCalls
          /\ InHeapRange(Value(result.heap, result.self))
          /\ seq' = result.self
          /\ heap' = result.heap
          /\ op' = [name |-> "append", target |-> "base", later |-> LaterBase,
                    other |-> IF rle = NoObject THEN NoObject ELSE Value(heap, rle)]
          /\ UNCHANGED <<rle, twin, decoded>>
  \/ \E base_event \in RunEventValues, run_length \in 0..MaxRun :
       /\ rle # NoObject
       /\ LaterBase <= LaterCalls
       /\ LET result == HeapRLEAppend(heap, rle, base_event, run_length)
          IN /\ InRleHeapRange(Value(result.heap, result.self))
             /\ rle' = result.self
             /\ heap' = result.heap
             /\ op' = [name |-> "append", target |-> "encoding", later |-> LaterBase,
                       other |-> Value(heap, seq)]
             /\ UNCHANGED <<seq, twin, decoded>>

BaseSetLength ==
  \E steps \in 0..HeapLen, from_left \in BOOLEAN :
    \/ LET result == HeapSimpleSetLength(heap, seq, steps, from_left)
       IN /\ LaterBase <= LaterCalls
          /\ InHeapRange(Value(result.heap, result.self))
          /\ seq' = result.self
          /\ heap' = result.heap
          /\ op' = [name |-> "set_length", target |-> "base", later |-> LaterBase,
                    other |-> IF rle = NoObject THEN NoObject ELSE Value(heap, rle)]
          /\ UNCHANGED <<rle, twin, decoded>>
    \/ /\ rle # NoObject
       /\ LaterBase <= LaterCalls
       /\ LET result == HeapRLESetLength(heap, rle, steps, from_left, {seq, rle})
          IN /\ InRleHeapRange(Value(result.heap, result.self))
             /\ rle' = result.self
             /\ heap' = Collect(result.heap, {seq, result.self})
             /\ op' = [name |-> "set_length", target |-> "encoding",
                       later |-> LaterBase, other |-> Value(heap, seq)]
             /\ UNCHANGED <<seq, twin, decoded>>

NextBase == BaseEncode \/ BaseAppend \/ BaseSetLength

SpecBase == InitBase /\ [][NextBase]_vars

\* C23: constructing the run-length sequence leaves its base unchanged, and
\* afterwards no append or set_length on either object changes the other's
\* events, runs, start_step or end_step.
C23_EncodingIsValueCopy ==
  /\ op.name = "encode" => Value(heap, seq) = op.other
  /\ (op.name \in {"append", "set_length"} /\ rle # NoObject) =>
       IF op.target = "base"
       THEN /\ Value(heap, rle) = op.other
            /\ RLEEndStep(Value(heap, rle)) = RLEEndStep(op.other)
       ELSE Value(heap, seq) = op.other

\* C23 witness: after the construction from a base of two events, the base
\* was cut to no events and then a run was appended to the encoding, which
\* still holds the two steps.
C23_Witness ==
  /\ op.name = "append"
  /\ op.target = "encoding"
  /\ op.later = 2
  /\ Value(heap, seq).events = <<>>
  /\ NumSteps(Value(heap, rle)) = 3

(***************************************************************************)
(* Specification SpecEq: two SimpleEventSequences, constructed apart, one   *)
(* of them under set_length calls, and the comparison `seq == twin`.       *)
(***************************************************************************)
\* longest list of events the two sequences are constructed with
EqLen == 1

InitEq ==
  /\ \E events \in SeqsUpTo(RunEventValues, EqLen), start_step \in 0..1 :
       seq = SimpleInit("_", events, start_step, 4, 1)
  /\ \E pad_event \in RunEventValues, events \in SeqsUpTo(RunEventValues, EqLen),
        start_step \in 0..1, steps_per_bar \in {4, 8}, steps_per_quarter \in {1, 2} :
       twin = SimpleInit(pad_event, events, start_step, steps_per_bar,
                         steps_per_quarter)
  /\ rle = NoObject
  /\ decoded = NoObject
  /\ heap = NoObject
  /\ op = [name |-> "init"]

EqSetLength ==
  \E steps \in 0..EqLen, from_left \in BOOLEAN :
    LET result == SimpleSetLength(seq, steps, from_left)
    IN /\ result.start_step \in 0..(EqLen + 1)
       /\ result.end_step \in 0..(EqLen + 1)
       /\ seq' = result
       /\ op' = [name |-> "set_length"]
       /\ UNCHANGED <<rle, decoded, twin, heap>>

\* seq == twin
EqCompare ==
  /\ op' = [name |-> "eq", result |-> SimpleEq(seq, twin)]
  /\ UNCHANGED <<seq, rle, decoded, twin, heap>>

NextEq == EqSetLength \/ EqCompare

SpecEq == InitEq /\ [][NextEq]_vars

\* C24: two SimpleEventSequences compare equal exactly when their event
\* lists, steps_per_bar, steps_per_quarter, start_step and end_step are all
\* equal; two that differ only in pad_event compare equal.
C24_EqualityIgnoresPadEvent ==
  op.name = "eq" =>
    /\ op.result <=>
         /\ \A i \in 1..Len(seq.events) :
              i <= Len(twin.events) /\ seq.events[i] = twin.events[i]
         /\ Len(seq.events) = Len(twin.events)
         /\ seq.steps_per_bar = twin.steps_per_bar
         /\ seq.steps_per_quarter = twin.steps_per_quarter
         /\ seq.start_step = twin.start_step
         /\ seq.end_step = twin.end_step
    /\ [seq EXCEPT !.pad_event = twin.pad_event] = twin => op.result

\* C24 witness: two sequences of one event that differ only in pad_event
\* were compared.
C24_Witness ==
  /\ op.name = "eq"
  /\ seq.pad_event # twin.pad_event
  /\ Len(seq.events) = 1
  /\ [seq EXCEPT !.pad_event = twin.pad_event] = twin

(***************************************************************************)
(* Specification SpecStandardize: _standardize_run_lengths applied, once   *)
(* and again, to a RunLengthEncodedEventSequence that holds any list of    *)
(* runs with lengths in 1..max_run_length, and the constructor applied to  *)
(* the events its runs expand to.                                          *)
(***************************************************************************)
\* most runs in the list drawn
StdLen == 3

InitStandardize ==
  /\ \E max_run_length \in 1..MaxRun, start_step \in 0..1 :
       \E events \in SeqsUpTo(RunEventValues \X (1..max_run_length), StdLen) :
         rle = [pad_event |-> "_",
                max_run_length |-> max_run_length,
                events |-> events,
                start_step |-> start_step,
                steps_per_quarter |-> 1]
  /\ seq = NoObject
  /\ twin = NoObject
  /\ decoded = NoObject
  /\ heap = NoObject
  /\ op = [name |-> "init"]

\* self._standardize_run_lengths(); op.times tells the first call from the
\* ones that follow it
Standardize ==
  /\ rle' = StandardizeRunLengths(rle)
  /\ op' = [name |-> "standardize", pre |-> rle,
            times |-> IF op.name = "standardize" THEN 2 ELSE 1]
  /\ UNCHANGED <<seq, twin, decoded, heap>>

\* RunLengthEncodedEventSequence(S, max_run_length) for the
\* SimpleEventSequence S of the events the runs expand to
EncodeUnderlying ==
  /\ twin = NoObject
  /\ twin' = RLEInit(SimpleInit(rle.pad_event, Expand(rle.events), rle.start_step,
                                4, rle.steps_per_quarter),
                     rle.max_run_length)
  /\ UNCHANGED <<seq, rle, decoded, heap, op>>

NextStandardize == Standardize \/ EncodeUnderlying

SpecStandardize == InitStandardize /\ [][NextStandardize]_vars

\* C25: for every run list whose run lengths are all in 1..max_run_length,
\* _standardize_run_lengths leaves the expansion of the runs (hence
\* num_steps and end_step) and start_step unchanged.
C25_StandardizePreservesContent ==
  op.name = "standardize" =>
    /\ Expand(rle.events) = Expand(op.pre.events)
    /\ NumSteps(rle) = NumSteps(op.pre)
    /\ RLEEndStep(rle) = RLEEndStep(op.pre)
    /\ rle.start_step = op.pre.start_step

\* C25 witness: three runs of one event were regrouped.
C25_Witness ==
  /\ op.name = "standardize"
  /\ Len(op.pre.events) = 3
  /\ op.pre.events[1][1] = op.pre.events[3][1]
  /\ rle.events # op.pre.events
  /\ rle.start_step = 1

\* C26: applying _standardize_run_lengths twice gives the same run list as
\* applying it once, and standardizing any valid run list that expands to S
\* gives exactly the run list the constructor produces from S with the same
\* max_run_length.
C26_StandardizeIdempotentAndCanonical ==
  op.name = "standardize" =>
    /\ op.times = 2 => rle.events = op.pre.events
    /\ twin # NoObject => rle.events = twin.events

\* C26 witness: a list that standardization had changed was standardized a
\* second time, and the constructor was applied to its expansion; the list
\* holds a full run followed by a run of the same event.
C26_Witness ==
  /\ op.name = "standardize"
  /\ op.times = 2
  /\ twin # NoObject
  /\ Len(rle.events) >= 2
  /\ rle.events[1][1] = rle.events[2][1]
  /\ rle.events[1][2] = rle.max_run_length
  /\ rle.max_run_length >= 2

(***************************************************************************)
(* Specification SpecLoop: RunLengthEncodedEventSequence.set_length run    *)
(* one loop iteration at a time.  op is the frame of the call: pc the      *)
(* statement it stands at ("idle" between calls), counter the local        *)
(* `steps` of _padding or `steps_to_remove`, padding the list _padding     *)
(* builds, consumed whether the from-left loop took its branch             *)
(* `self._events = self._events[0:]`, raised whether a statement raised.   *)
(***************************************************************************)
\* one iteration of the loop of _padding
PaddingStep(self, steps, events) ==
  LET added_steps == IF steps < self.max_run_length
                     THEN steps ELSE self.max_run_length
  IN [events |-> Append(events, <<self.pad_event, added_steps>>),
      steps |-> steps - added_steps]

\* an iteration that, when the first run is used up, counts the steps to
\* remove again from the run list it has left as it was
LeftStepRecount(events, steps_to_remove) ==
  LET event == events[1][1]
      run_length == events[1][2]
  IN IF run_length > steps_to_remove
     THEN [events |-> [events EXCEPT ![1] = <<event, run_length - steps_to_remove>>],
           steps_to_remove |-> 0]
     ELSE [events |-> GetSlice(events, 0, Len(events)),
           steps_to_remove |-> steps_to_remove]

\* one iteration of the from-left loop of set_length
LeftStep(events, steps_to_remove) ==
  LET event == events[1][1]
      run_length == events[1][2]
  IN IF run_length > steps_to_remove
     THEN [events |-> [events EXCEPT ![1] = <<event, run_length - steps_to_remove>>],
           steps_to_remove |-> 0]
     ELSE [events |-> GetSlice(events, 0, Len(events)),
           steps_to_remove |-> steps_to_remove - run_length]

\* one iteration of the from-the-right loop of set_length
RightStep(events, steps_to_remove) ==
  LET event == events[Len(events)][1]
      run_length == events[Len(events)][2]
  IN IF run_length > steps_to_remove
     THEN [events |-> [events EXCEPT ![Len(events)] =
                         <<event, run_length - steps_to_remove>>],
           steps_to_remove |-> 0]
     ELSE [events |-> GetSlice(events, 0, 0 - 1),
           steps_to_remove |-> steps_to_remove - run_length]

\* the frame between calls
Idle(from_left, consumed, raised) ==
  [pc |-> "idle", from_left |-> from_left, counter |-> 0, padding |-> <<>>,
   consumed |-> consumed, raised |-> raised]

InitLoop ==
  /\ \E pad_event \in PadEvents, events \in SeqsUpTo(RunEventValues, MaxSteps),
        start_step \in 0..1, max_run_length \in 1..MaxRun :
       rle = RLEInit(SimpleInit(pad_event, events, start_step, 4, 1), max_run_length)
  /\ seq = NoObject
  /\ decoded = NoObject
  /\ heap = NoObject
  /\ twin = NoObject
  /\ op = Idle(FALSE, FALSE, FALSE)

\* events.append((base_event, run_length)) between two set_length calls
LoopAppend ==
  \E base_event \in RunEventValues, run_length \in 1..MaxRun :
    LET result == RLEAppend(rle, base_event, run_length)
    IN /\ op.pc = "idle"
       /\ ~result.raised
       /\ RLEInRange(result.self)
       /\ rle' = result.self
       /\ op' = Idle(FALSE, FALSE, FALSE)
       /\ UNCHANGED <<seq, decoded, twin, heap>>

\* entry of set_length(steps, from_left), up to the first loop
LoopCall ==
  \E steps \in 0..MaxSteps, from_left \in BOOLEAN :
    /\ op.pc = "idle"
    /\ RLEInRange(RLESetLength(rle, steps, from_left))
    /\ IF steps > NumSteps(rle)
       THEN LET steps_to_add == steps - NumSteps(rle)
            IN /\ rle' = IF from_left
                         THEN [rle EXCEPT !.start_step = @ - steps_to_add]
                         ELSE rle
               /\ op' = [pc |-> "padding", from_left |-> from_left,
                         counter |-> steps_to_add, padding |-> <<>>,
                         consumed |-> FALSE, raised |-> FALSE]
       ELSE LET steps_to_remove == NumSteps(rle) - steps
            IN /\ rle' = IF from_left
                         THEN [rle EXCEPT !.start_step = @ + steps_to_remove]
                         ELSE rle
               /\ op' = [pc |-> IF from_left THEN "left" ELSE "right",
                         from_left |-> from_left,
                         counter |-> steps_to_remove, padding |-> <<>>,
                         consumed |-> FALSE, raised |-> FALSE]
    /\ UNCHANGED <<seq, decoded, twin, heap>>

\* `while steps > 0` of _padding: one iteration, or the exit, the return and
\* the statement of set_length that joins the padding to the run list
PaddingIteration ==
  /\ op.pc = "padding"
  /\ IF op.counter > 0
     THEN LET step == PaddingStep(rle, op.counter, op.padding)
          IN /\ op' = [op EXCEPT !.counter = step.steps, !.padding = step.events]
             /\ rle' = rle
     ELSE /\ rle' = [rle EXCEPT !.events = IF op.from_left
                                           THEN op.padding \o @
                                           ELSE @ \o op.padding]
          /\ op' = [op EXCEPT !.pc = "standardize", !.padding = <<>>]
  /\ UNCHANGED <<seq, decoded, twin, heap>>

\* `while steps_to_remove > 0` of the from_left branch: one iteration or the
\* exit; `self._events[0]` raises IndexError on an empty list
LeftIteration ==
  /\ op.pc = "left"
  /\ IF op.counter > 0
     THEN IF rle.events = <<>>
          THEN /\ op' = Idle(op.from_left, op.consumed, TRUE)
               /\ rle' = rle
          ELSE LET step == LeftStep(rle.events, op.counter)
               IN /\ rle' = [rle EXCEPT !.events = step.events]
                  /\ op' = [op EXCEPT !.counter = step.steps_to_remove,
                                      !.consumed = @ \/ rle.events[1][2] <= op.counter]
     ELSE /\ op' = [op EXCEPT !.pc = "standardize"]
          /\ rle' = rle
  /\ UNCHANGED <<seq, decoded, twin, heap>>

\* `while steps_to_remove > 0` of the other branch: one iteration or the
\* exit; `self._events[-1]` raises IndexError on an empty list
RightIteration ==
  /\ op.pc = "right"
  /\ IF op.counter > 0
     THEN IF rle.events = <<>>
          THEN /\ op' = Idle(op.from_left, op.consumed, TRUE)
               /\ rle' = rle
          ELSE LET step == RightStep(rle.events, op.counter)
               IN /\ rle' = [rle EXCEPT !.events = step.events]
                  /\ op' = [op EXCEPT !.counter = step.steps_to_remove]
     ELSE /\ op' = [op EXCEPT !.pc = "standardize"]
          /\ rle' = rle
  /\ UNCHANGED <<seq, decoded, twin, heap>>

\* self._standardize_run_lengths() and the return of set_length
StandardizeReturn ==
  /\ op.pc = "standardize"
  /\ rle' = StandardizeRunLengths(rle)
  /\ op' = Idle(op.from_left, op.consumed, FALSE)
  /\ UNCHANGED <<seq, decoded, twin, heap>>

\* the statements of a call that has begun
Running ==
  PaddingIteration \/ LeftIteration \/ RightIteration \/ StandardizeReturn

NextLoop == LoopAppend \/ LoopCall \/ Running

\* a call that has begun goes on executing its statements
SpecLoop == InitLoop /\ [][NextLoop]_vars /\ WF_vars(Running)

\* C27: for every reachable run-length sequence with max_run_length >= 1,
\* every steps >= 0 and both values of from_left, set_length returns after
\* finitely many iterations of the padding loop and of both shrink loops,
\* without raising.
C27_SetLengthTerminates ==
  /\ [](~op.raised)
  /\ (op.pc # "idle") ~> (op.pc = "idle")

\* C27 witness: a from_left call has returned whose loop took the branch
\* that reassigns the run list to itself.
C27_Witness ==
  /\ op.pc = "idle"
  /\ op.from_left
  /\ op.consumed
  /\ ~op.raised
  /\ Len(rle.events) >= 2

(***************************************************************************)
(* PerformanceRnnSequenceGenerator._generate of                            *)
(* magenta/models/performance_rnn/performance_sequence_generator.py.  A    *)
(* note sequence is the set of the end times of its notes, a section the   *)
(* record of its start_time and end_time; times are whole numbers.         *)
(***************************************************************************)
\* latest time drawn
MaxTime == 2
\* most calls of the model's generate_performance drawn
MaxCalls == 2

Times == 0..MaxTime

Sections == [start_time : Times, end_time : {MaxTime}]

\* max(n.end_time for n in notes) if notes else 0
LastEndTime(notes) ==
  IF notes # {} THEN CHOOSE t \in notes : \A u \in notes : u <= t ELSE 0

\* checks that let a request without generate section through: the read of
\* generate_sections[0] then raises IndexError
GenerateChecksAtMostOne(input_sections, generate_sections, input_sequence, trimmed) ==
  IF Len(input_sections) > 1
  THEN [raised |-> "SequenceGeneratorException", primer_sequence |-> {}]
  ELSE IF Len(generate_sections) > 1
  THEN [raised |-> "SequenceGeneratorException", primer_sequence |-> {}]
  ELSE IF generate_sections = <<>>
  THEN [raised |-> "IndexError", primer_sequence |-> {}]
  ELSE LET generate_section == generate_sections[1]
           primer_sequence == IF input_sections # <<>> THEN trimmed
                              ELSE input_sequence
       IN IF LastEndTime(primer_sequence) > generate_section.start_time
          THEN [raised |-> "SequenceGeneratorException",
                primer_sequence |-> primer_sequence]
          ELSE [raised |-> None, primer_sequence |-> primer_sequence]

\* _generate up to the last raise of SequenceGeneratorException; `trimmed`
\* is what mm.trim_note_sequence returns for the input section
GenerateChecks(input_sections, generate_sections, input_sequence, trimmed) ==
  IF Len(input_sections) > 1
  THEN [raised |-> "SequenceGeneratorException", primer_sequence |-> {}]
  ELSE IF Len(generate_sections) # 1
  THEN [raised |-> "SequenceGeneratorException", primer_sequence |-> {}]
  ELSE LET generate_section == generate_sections[1]
           primer_sequence == IF input_sections # <<>> THEN trimmed
                              ELSE input_sequence
       IN IF LastEndTime(primer_sequence) > generate_section.start_time
          THEN [raised |-> "SequenceGeneratorException",
                primer_sequence |-> primer_sequence]
          ELSE [raised |-> None, primer_sequence |-> primer_sequence]

(***************************************************************************)
(* Specification SpecGenerate: a request is made and _generate runs on it. *)
(* op is the request and, after the call, its outcome: the exception       *)
(* raised and the number of calls of generate_performance made.            *)
(***************************************************************************)
InitGenerate ==
  /\ op = [name |-> "init"]
  /\ seq = NoObject
  /\ rle = NoObject
  /\ decoded = NoObject
  /\ twin = NoObject
  /\ heap = NoObject

\* the caller builds input_sequence and generator_options
Request ==
  \E input_sections \in SeqsUpTo(Sections, 2), generate_sections \in SeqsUpTo(Sections, 2),
     input_sequence \in SUBSET Times :
    /\ op.name # "request"
    /\ \A i \in 1..Len(input_sections) : input_sections[i].start_time = 0
    /\ op' = [name |-> "request", input_sections |-> input_sections,
              generate_sections |-> generate_sections,
              input_sequence |-> input_sequence]
    /\ UNCHANGED <<seq, rle, decoded, twin, heap>>

\* _generate(input_sequence, generator_options).  The code the call runs
\* after its checks (quantization, extraction, the model) is not part of
\* the sources: it makes any number of generate_performance calls and
\* returns or fails an assertion.  trim_note_sequence returns any notes.
Generate ==
  \E trimmed \in SUBSET Times, calls \in 0..MaxCalls,
     outcome \in {None, "AssertionError"} :
    LET checks == GenerateChecks(op.input_sections, op.generate_sections,
                                 op.input_sequence, trimmed)
    IN /\ op.name = "request"
       /\ Len(op.input_sections) # 1 => trimmed = {}
       /\ checks.raised # None => (calls = 0 /\ outcome = None)
       /\ op' = [name |-> "generate", input_sections |-> op.input_sections,
                 generate_sections |-> op.generate_sections,
                 primer_sequence |-> checks.primer_sequence,
                 raised |-> IF checks.raised # None THEN checks.raised ELSE outcome,
                 calls |-> calls]
       /\ UNCHANGED <<seq, rle, decoded, twin, heap>>

NextGenerate == Request \/ Generate

SpecGenerate == InitGenerate /\ [][NextGenerate]_vars

\* C28: _generate raises SequenceGeneratorException, without calling the
\* model's generate_performance, when there is more than one input section,
\* when the number of generate sections is not exactly 1, or when the last
\* note end time of the primer is greater than the generate section's
\* start time.
C28_GenerateValidatesFirst ==
  (/\ op.name = "generate"
   /\ \/ Len(op.input_sections) > 1
      \/ Len(op.generate_sections) # 1
      \/ \E t \in op.primer_sequence : t > op.generate_sections[1].start_time)
  => /\ op.raised = "SequenceGeneratorException"
     /\ op.calls = 0

\* C28 witness: a request with one input section and one generate section
\* whose primer ends after the generate section starts was refused.
C28_Witness ==
  /\ op.name = "generate"
  /\ Len(op.input_sections) = 1
  /\ Len(op.generate_sections) = 1
  /\ \E t \in op.primer_sequence : t > op.generate_sections[1].start_time
  /\ op.raised = "SequenceGeneratorException"

====
